---- MODULE Spec2Model ----
(***************************************************************************)
(* Financial context aggregation and caching of the AI financial coach.    *)
(*                                                                         *)
(*   - BelvoHandler.GetDetailedLinkInfo: the fan-out of four goroutines,   *)
(*     the join on the counting channel, the derivation of the owner name, *)
(*     of has_data and of the financial summary, and the response.         *)
(*   - createFinancialSummaryFromData / createBasicFinancialSummary.       *)
(*   - AIHandler.StoreContext / AIHandler.GetCachedContext on the          *)
(*     ContextCache (sync.RWMutex + map), with concurrent callers.         *)
(*                                                                         *)
(* Money: a float64 amount is represented exactly, as an integer number of *)
(* 1/MonthsOfData currency units (Fx), so that the division by             *)
(* monthsOfData is exact.  Time: time.Time is a number of hours.           *)
(* A Go pointer is an option: Nil (<<>>) or <<value>>.                     *)
(***************************************************************************)
EXTENDS Integers, Sequences, FiniteSets, TLC

(***************************************************************************)
(* Bounds of the model                                                     *)
(***************************************************************************)
MaxAccounts == 2
MaxTransactions == 2
MaxIncomes == 1
MaxOwners == 1
MaxRecurring == 1
MaxOwnersReturned == 2
MaxClock == 40
HoursPerTick == 8

(***************************************************************************)
(* Program constants                                                       *)
(***************************************************************************)
NumFetches == 4
MonthsOfData == 3
TTLHours == 24
ShortIdLen == 8
DefaultCurrency == "BRL"
UnknownCustomer == "Unknown Customer"

Nil == <<>>
Some(x) == <<x>>
Deref(p) == p[1]

NoErr == "nil"
Failed == "error"

\* float64(n) in the fixed-point representation
Fx(n) == n * MonthsOfData
\* the total taken as the monthly figure, without the division
DivMonths_Mut(x) == x

\* x / monthsOfData for a fixed-point x
DivMonths(x) == x \div MonthsOfData

RECURSIVE SeqsUpTo(_, _)
SeqsUpTo(S, n) ==
    IF n = 0 THEN {<<>>}
    ELSE LET shorter == SeqsUpTo(S, n - 1)
         IN shorter \cup {Append(q, x) : q \in {p \in shorter : Len(p) = n - 1}, x \in S}

\* the sum of a sequence of integers
RECURSIVE SumSeq(_)
SumSeq(q) == IF q = <<>> THEN 0 ELSE Head(q) + SumSeq(Tail(q))

(***************************************************************************)
(* Inputs: link identifiers, request bodies and the provider's answers     *)
(***************************************************************************)
EmptyLink == <<>>
ShortLink == <<"a", "b", "c">>
LongLink == <<"l", "i", "n", "k", "-", "0", "0", "0", "1">>
LinkIds == {EmptyLink, ShortLink, LongLink}
CacheKeys == {ShortLink, LongLink}

Requests == [bindOk : BOOLEAN, SecretID : {"", "sid"}, SecretKey : {"", "skey"}]

BelvoOwner == [DisplayName : {"", "Ana"}, FullName : {"", "Ana Souza"}]
BelvoAccount == {[Available |-> 1000, Currency |-> "BRL"], [Available |-> 250, Currency |-> "USD"]}
BelvoTransaction == {[Type |-> "INFLOW", Amount |-> 6000],
                     [Type |-> "OUTFLOW", Amount |-> 4500],
                     [Type |-> "TRANSFER", Amount |-> 700]}
BelvoIncome == [MonthlyAverage : {0, 5000}]
BelvoRecurringExpense == [AverageTransactionAmount : {0, 1200}]

OwnerLists == SeqsUpTo(BelvoOwner, MaxOwners)
AccountLists == SeqsUpTo(BelvoAccount, MaxAccounts)
TransactionLists == SeqsUpTo(BelvoTransaction, MaxTransactions)
IncomeLists == SeqsUpTo(BelvoIncome, MaxIncomes)
RecurringLists == SeqsUpTo(BelvoRecurringExpense, MaxRecurring)

\* a remote fetch returns (list, nil) or (nil, err)
FetchOutcomes(lists) == [data : lists, err : {NoErr}] \cup {[data |-> <<>>, err |-> Failed]}

Resources == {"owners", "accounts", "transactions", "incomes"}
SpawnOrder == <<"owners", "accounts", "transactions", "incomes">>

(***************************************************************************)
(* State                                                                   *)
(***************************************************************************)
VARIABLES
    clock,        \* time.Now(), in hours
    linkID,       \* ctx.PathParam("link_id")
    req,          \* the request body as ctx.Bind reads it
    pc,           \* position of the GetDetailedLinkInfo handler goroutine
    task,         \* position of each of the four fetch goroutines
    result,       \* the shared fetchResult record
    fetched,      \* history: what the provider answered to each fetch
    done,         \* number of values buffered in the done channel
    i,            \* loop counter of the join loop
    loc,          \* locals derived after the join
    response,     \* what the handler returned: Nil or <<view>>
    cache,        \* ContextCache.contexts
    mu,           \* ContextCache.mu
    callers,      \* the goroutines calling StoreContext / GetCachedContext
    lastStore,    \* history: the last write of StoreContext per key
    lastLock,     \* history: the last StoreContext to take the write lock, per key
    crashed,      \* the runtime reported a fatal concurrent map access
    build,        \* calls of the two summary builders on one set of inputs
    chat,         \* the goroutine serving one Chat request
    cacheReq,     \* the last CacheContextFromSummary request and its outcome
    call          \* one call of a fetch function of BelvoService: what the
                  \* provider sent, what the function returned

fanVars == <<linkID, req, pc, task, result, fetched, done, i, loc, response>>
cacheVars == <<cache, mu, callers, lastStore, lastLock, crashed>>
buildVars == <<build>>
chatVars == <<chat, cacheReq>>
fetchVars == <<call>>
vars == <<clock, linkID, req, pc, task, result, fetched, done, i, loc, response,
          cache, mu, callers, lastStore, lastLock, crashed, build, chat, cacheReq, call>>

(***************************************************************************)
(* Summary Builder                                                         *)
(***************************************************************************)
\* a total that stops after the first account
SumAvailable_Mut(accounts) ==
    IF accounts = <<>> THEN 0 ELSE Fx(Head(accounts).Available)

RECURSIVE SumAvailable(_)
SumAvailable(accounts) ==
    IF accounts = <<>> THEN 0
    ELSE Fx(Head(accounts).Available) + SumAvailable(Tail(accounts))

RECURSIVE SumMonthlyAverage(_)
SumMonthlyAverage(incomes) ==
    IF incomes = <<>> THEN 0
    ELSE Fx(Head(incomes).MonthlyAverage) + SumMonthlyAverage(Tail(incomes))

\* a partition with a plain else: every transaction that is not an INFLOW is
\* counted as an OUTFLOW
SumOfType_Mut(transactions, type) ==
    SumSeq([k \in 1..Len(transactions) |->
               IF (transactions[k].Type = "INFLOW") = (type = "INFLOW")
               THEN Fx(transactions[k].Amount) ELSE 0])

RECURSIVE SumOfType(_, _)
SumOfType(transactions, type) ==
    IF transactions = <<>> THEN 0
    ELSE (IF Head(transactions).Type = type THEN Fx(Head(transactions).Amount) ELSE 0)
         + SumOfType(Tail(transactions), type)

\* a builder that reads the clock to window the transactions: those fetched are
\* dropped once an hour has passed
createFinancialSummaryFromData_Mut(link, accounts, transactions, incomes, now) ==
    LET recent == IF now > 0 THEN <<>> ELSE transactions
        incomeFromStreams == SumMonthlyAverage(incomes)
        monthlyIncome == IF incomeFromStreams = 0
                         THEN DivMonths(SumOfType(recent, "INFLOW"))
                         ELSE incomeFromStreams
        monthlyVariableExpenses == DivMonths(SumOfType(recent, "OUTFLOW"))
    IN [UserID |-> link,
        GeneratedAt |-> now,
        MonthlyIncome |-> monthlyIncome,
        MonthlyFixedExpenses |-> 0,
        MonthlyVariableExpenses |-> monthlyVariableExpenses,
        MonthlySurplus |-> monthlyIncome - monthlyVariableExpenses,
        TotalBalance |-> SumAvailable(accounts),
        Accounts |-> accounts,
        RecentTransactions |-> recent,
        IncomeStreams |-> incomes,
        RecurringExpenses |-> <<>>,
        Currency |-> IF Len(accounts) > 0 THEN accounts[1].Currency ELSE DefaultCurrency]

createFinancialSummaryFromData(link, accounts, transactions, incomes, now) ==
    LET totalBalance == SumAvailable(accounts)
        incomeFromStreams == SumMonthlyAverage(incomes)
        totalInflow == SumOfType(transactions, "INFLOW")
        totalOutflow == SumOfType(transactions, "OUTFLOW")
        monthlyIncomeFromTransactions == DivMonths(totalInflow)
        monthlyExpensesFromTransactions == DivMonths(totalOutflow)
        monthlyIncome == IF incomeFromStreams = 0 THEN monthlyIncomeFromTransactions
                         ELSE incomeFromStreams
        monthlyVariableExpenses == monthlyExpensesFromTransactions
        monthlySurplus == monthlyIncome - monthlyVariableExpenses
        currency == IF Len(accounts) > 0 THEN accounts[1].Currency ELSE DefaultCurrency
    IN [UserID |-> link,
        GeneratedAt |-> now,
        MonthlyIncome |-> monthlyIncome,
        MonthlyFixedExpenses |-> 0,
        MonthlyVariableExpenses |-> monthlyVariableExpenses,
        MonthlySurplus |-> monthlySurplus,
        TotalBalance |-> totalBalance,
        Accounts |-> accounts,
        RecentTransactions |-> transactions,
        IncomeStreams |-> incomes,
        RecurringExpenses |-> <<>>,
        Currency |-> currency]

createBasicFinancialSummary(link, accounts, transactions, now) ==
    createFinancialSummaryFromData(link, accounts, transactions, <<>>, now)

RECURSIVE SumAverageAmount(_)
SumAverageAmount(recurringExpenses) ==
    IF recurringExpenses = <<>> THEN 0
    ELSE Fx(Head(recurringExpenses).AverageTransactionAmount)
         + SumAverageAmount(Tail(recurringExpenses))

\* a surplus that is floored at zero
monthlySurplusOf_Mut(monthlyIncome, monthlyFixedExpenses, monthlyVariableExpenses) ==
    IF monthlyIncome < monthlyFixedExpenses + monthlyVariableExpenses THEN 0
    ELSE monthlyIncome - monthlyFixedExpenses - monthlyVariableExpenses

\* monthlySurplus := monthlyIncome - monthlyFixedExpenses - monthlyVariableExpenses
monthlySurplusOf(monthlyIncome, monthlyFixedExpenses, monthlyVariableExpenses) ==
    monthlyIncome - monthlyFixedExpenses - monthlyVariableExpenses

\* a GetFinancialSummary without the fallback to the income seen in transactions
GetFinancialSummary_Mut(link, accounts, transactions, incomes, recurringExpenses, now) ==
    LET monthlyIncome == SumMonthlyAverage(incomes)
        monthlyFixedExpenses == SumAverageAmount(recurringExpenses)
        monthlyVariableExpenses == IF Len(transactions) > 0
                                   THEN DivMonths(SumOfType(transactions, "OUTFLOW"))
                                   ELSE 0
    IN [UserID |-> link,
        GeneratedAt |-> now,
        MonthlyIncome |-> monthlyIncome,
        MonthlyFixedExpenses |-> monthlyFixedExpenses,
        MonthlyVariableExpenses |-> monthlyVariableExpenses,
        MonthlySurplus |-> monthlySurplusOf(monthlyIncome, monthlyFixedExpenses,
                                            monthlyVariableExpenses),
        TotalBalance |-> SumAvailable(accounts),
        Accounts |-> accounts,
        RecentTransactions |-> transactions,
        IncomeStreams |-> incomes,
        RecurringExpenses |-> recurringExpenses,
        Currency |-> IF Len(accounts) > 0 THEN accounts[1].Currency ELSE DefaultCurrency]

\* BelvoService.GetFinancialSummary once its four fetches have succeeded
GetFinancialSummary(link, accounts, transactions, incomes, recurringExpenses, now) ==
    LET totalBalance == SumAvailable(accounts)
        incomeFromStreams == SumMonthlyAverage(incomes)
        monthlyFixedExpenses == SumAverageAmount(recurringExpenses)
        totalInflow == SumOfType(transactions, "INFLOW")
        totalOutflow == SumOfType(transactions, "OUTFLOW")
        hasTransactions == Len(transactions) > 0
        monthlyIncome == IF hasTransactions /\ incomeFromStreams = 0
                         THEN DivMonths(totalInflow)
                         ELSE incomeFromStreams
        monthlyVariableExpenses == IF hasTransactions THEN DivMonths(totalOutflow) ELSE 0
        currency == IF Len(accounts) > 0 THEN accounts[1].Currency ELSE DefaultCurrency
    IN [UserID |-> link,
        GeneratedAt |-> now,
        MonthlyIncome |-> monthlyIncome,
        MonthlyFixedExpenses |-> monthlyFixedExpenses,
        MonthlyVariableExpenses |-> monthlyVariableExpenses,
        MonthlySurplus |-> monthlySurplusOf(monthlyIncome, monthlyFixedExpenses,
                                            monthlyVariableExpenses),
        TotalBalance |-> totalBalance,
        Accounts |-> accounts,
        RecentTransactions |-> transactions,
        IncomeStreams |-> incomes,
        RecurringExpenses |-> recurringExpenses,
        Currency |-> currency]

(***************************************************************************)
(* ContextCache: the map and its entries                                    *)
(***************************************************************************)
NotFound == [summary |-> Nil, found |-> FALSE]
Found(s) == [summary |-> Some(s), found |-> TRUE]

EmptyCache == [k \in CacheKeys |-> Nil]

\* contexts[k], with the comma-ok result as an option
Entry(c, k) == IF k \in DOMAIN c THEN c[k] ELSE Nil

\* the expiry set without the time to live
ExpiryOf_Mut(now) == now

\* time.Now().Add(24 * time.Hour)
ExpiryOf(now) == now + TTLHours

\* the expiry test with Before in place of After
Expired_Mut(now, entry) == now < entry.ExpiresAt

\* time.Now().After(cached.ExpiresAt)
Expired(now, entry) == now > entry.ExpiresAt

\* a store that keeps an entry already present
MapAssign_Mut(c, k, entry) == IF c[k] # Nil THEN c ELSE [c EXCEPT ![k] = Some(entry)]

\* contexts[sessionKey] = &CachedContext{...}
MapAssign(c, k, entry) == [c EXCEPT ![k] = Some(entry)]

\* a delete that empties the map
MapDelete_Mut(c, k) == [j \in DOMAIN c |-> Nil]

\* delete(contexts, sessionKey)
MapDelete(c, k) == [c EXCEPT ![k] = Nil]

(***************************************************************************)
(* GetDetailedLinkInfo                                                     *)
(***************************************************************************)
EmptyResult ==
    [owners |-> <<>>, accounts |-> <<>>, transactions |-> <<>>, summary |-> Nil,
     ownerErr |-> NoErr, accountErr |-> NoErr, transErr |-> NoErr, summaryErr |-> NoErr]

NoLocals ==
    [ownerName |-> "", accounts |-> <<>>, transactions |-> <<>>, totalBalance |-> 0,
     hasData |-> FALSE, financialSummary |-> Nil]

ErrorResponse(msg) == [kind |-> "error", error |-> msg]

\* the checks without the one on secret_id and secret_key
ValidateRequest_Mut ==
    /\ pc = "start"
    /\ IF linkID = EmptyLink
       THEN /\ response' = Some(ErrorResponse("link_id parameter is required"))
            /\ pc' = "failed"
       ELSE IF ~req.bindOk
       THEN /\ response' = Some(ErrorResponse("invalid request"))
            /\ pc' = "failed"
       ELSE /\ response' = response
            /\ pc' = "spawn"
    /\ UNCHANGED <<clock, linkID, req, task, result, fetched, done, i, loc>>
    /\ UNCHANGED <<cacheVars, buildVars, fetchVars, chatVars>>

\* lines 711-730: the parameter and body checks made before any fetch
ValidateRequest ==
    /\ pc = "start"
    /\ IF linkID = EmptyLink
       THEN /\ response' = Some(ErrorResponse("link_id parameter is required"))
            /\ pc' = "failed"
       ELSE IF ~req.bindOk
       THEN /\ response' = Some(ErrorResponse("invalid request"))
            /\ pc' = "failed"
       ELSE IF req.SecretID = "" \/ req.SecretKey = ""
       THEN /\ response' = Some(ErrorResponse("secret_id and secret_key are required"))
            /\ pc' = "failed"
       ELSE /\ response' = response
            /\ pc' = "spawn"
    /\ UNCHANGED <<clock, linkID, req, task, result, fetched, done, i, loc>>
    /\ UNCHANGED <<cacheVars, buildVars, fetchVars, chatVars>>

\* lines 748, 754, 760, 769: the go statements, in program order
SpawnTask ==
    /\ pc = "spawn"
    /\ LET n == Cardinality({r \in Resources : task[r] # "unspawned"}) + 1
       IN /\ task' = [task EXCEPT ![SpawnOrder[n]] = "running"]
          /\ pc' = IF n = NumFetches THEN "wait" ELSE "spawn"
    /\ UNCHANGED <<clock, linkID, req, result, fetched, done, i, loc, response>>
    /\ UNCHANGED <<cacheVars, buildVars, fetchVars, chatVars>>

\* the incomes goroutine assigning a fresh record instead of its own fields
WriteResult_Mut(r, out) ==
    CASE r = "owners" -> [result EXCEPT !.owners = out.data, !.ownerErr = out.err]
      [] r = "accounts" -> [result EXCEPT !.accounts = out.data, !.accountErr = out.err]
      [] r = "transactions" -> [result EXCEPT !.transactions = out.data, !.transErr = out.err]
      [] r = "incomes" -> IF out.err # NoErr
                          THEN [EmptyResult EXCEPT !.summaryErr = out.err]
                          ELSE [EmptyResult EXCEPT !.summary = Some([IncomeStreams |-> out.data])]

\* the assignment each goroutine makes to its fields of the shared record
WriteResult(r, out) ==
    CASE r = "owners" -> [result EXCEPT !.owners = out.data, !.ownerErr = out.err]
      [] r = "accounts" -> [result EXCEPT !.accounts = out.data, !.accountErr = out.err]
      [] r = "transactions" -> [result EXCEPT !.transactions = out.data, !.transErr = out.err]
      [] r = "incomes" -> IF out.err # NoErr
                          THEN [result EXCEPT !.summaryErr = out.err]
                          ELSE [result EXCEPT !.summary = Some([IncomeStreams |-> out.data])]

OutcomesOf(r) ==
    CASE r = "owners" -> FetchOutcomes(OwnerLists)
      [] r = "accounts" -> FetchOutcomes(AccountLists)
      [] r = "transactions" -> FetchOutcomes(TransactionLists)
      [] r = "incomes" -> FetchOutcomes(IncomeLists)

\* a goroutine that calls its fetch again after a failure instead of returning
TaskRun_Mut(r) ==
    /\ task[r] = "running"
    /\ done < NumFetches
    /\ \E out \in OutcomesOf(r) :
          /\ result' = WriteResult(r, out)
          /\ fetched' = [fetched EXCEPT ![r] = Some(out)]
          /\ done' = IF out.err # NoErr THEN done ELSE done + 1
          /\ task' = IF out.err # NoErr THEN task ELSE [task EXCEPT ![r] = "exited"]
    /\ UNCHANGED <<clock, linkID, req, pc, i, loc, response>>
    /\ UNCHANGED <<cacheVars, buildVars, fetchVars, chatVars>>

\* lines 748-778: a fetch goroutine runs: the service call, the assignment of
\* its fields of the shared record and, as it returns, the deferred send on
\* the buffered done channel
TaskRun(r) ==
    /\ task[r] = "running"
    /\ done < NumFetches
    /\ \E out \in OutcomesOf(r) :
          /\ result' = WriteResult(r, out)
          /\ fetched' = [fetched EXCEPT ![r] = Some(out)]
    /\ done' = done + 1
    /\ task' = [task EXCEPT ![r] = "exited"]
    /\ UNCHANGED <<clock, linkID, req, pc, i, loc, response>>
    /\ UNCHANGED <<cacheVars, buildVars, fetchVars, chatVars>>

\* whether the HTTP client a fetch uses has a Timeout: GetIncomes goes through
\* makeRequest and bs.httpClient (30 s); GetOwners, GetAccounts and
\* GetTransactions each build &http.Client{}, whose zero Timeout means none
HasTimeout(r) == r = "incomes"

\* the provider accepts the request of a fetch and never answers it
TaskStall(r) ==
    /\ task[r] = "running"
    /\ task' = [task EXCEPT ![r] = "stalled"]
    /\ UNCHANGED <<clock, linkID, req, pc, result, fetched, done, i, loc, response>>
    /\ UNCHANGED <<cacheVars, buildVars, fetchVars, chatVars>>

\* the client's Timeout ends a stalled fetch with an error, which the goroutine
\* records like any other failure before its deferred send
TaskTimeout(r) ==
    /\ task[r] = "stalled"
    /\ HasTimeout(r)
    /\ done < NumFetches
    /\ LET out == [data |-> <<>>, err |-> Failed]
       IN /\ result' = WriteResult(r, out)
          /\ fetched' = [fetched EXCEPT ![r] = Some(out)]
    /\ done' = done + 1
    /\ task' = [task EXCEPT ![r] = "exited"]
    /\ UNCHANGED <<clock, linkID, req, pc, i, loc, response>>
    /\ UNCHANGED <<cacheVars, buildVars, fetchVars, chatVars>>

\* the join loop stopping one receive short
JoinCount_Mut == NumFetches - 1

\* number of receives the join loop makes (line 781)
JoinCount == NumFetches

\* lines 781-783: one receive of the join loop
JoinReceive ==
    /\ pc = "wait"
    /\ i < JoinCount
    /\ done > 0
    /\ done' = done - 1
    /\ i' = i + 1
    /\ pc' = IF i + 1 < JoinCount THEN "wait" ELSE "derive"
    /\ UNCHANGED <<clock, linkID, req, task, result, fetched, loc, response>>
    /\ UNCHANGED <<cacheVars, buildVars, fetchVars, chatVars>>

\* lines 786-791
OwnerNameOf(owners) ==
    IF Len(owners) > 0 /\ owners[1].DisplayName # "" THEN owners[1].DisplayName
    ELSE IF Len(owners) > 0 /\ owners[1].FullName # "" THEN owners[1].FullName
    ELSE UnknownCustomer

\* a failed transactions fetch discarding the accounts as well
AccountsOf_Mut(res) ==
    IF res.accountErr # NoErr \/ res.transErr # NoErr THEN <<>> ELSE res.accounts

\* lines 794-797
AccountsOf(res) == IF res.accountErr # NoErr THEN <<>> ELSE res.accounts

\* lines 806-809
TransactionsOf(res) == IF res.transErr # NoErr THEN <<>> ELSE res.transactions

\* has_data requiring both accounts and transactions
HasDataOf_Mut(accounts, transactions) == Len(accounts) > 0 /\ Len(transactions) > 0

\* line 812
HasDataOf(accounts, transactions) == Len(accounts) > 0 \/ Len(transactions) > 0

\* lines 815-820
SummaryOf(link, res, accounts, transactions, now) ==
    IF res.summaryErr # NoErr
    THEN createBasicFinancialSummary(link, accounts, transactions, now)
    ELSE createFinancialSummaryFromData(link, accounts, transactions,
                                        Deref(res.summary).IncomeStreams, now)

\* lines 785-820: everything derived from the joined record
DeriveSummary ==
    /\ pc = "derive"
    /\ LET accounts == AccountsOf(result)
           transactions == TransactionsOf(result)
       IN loc' = [ownerName |-> OwnerNameOf(result.owners),
                  accounts |-> accounts,
                  transactions |-> transactions,
                  totalBalance |-> SumAvailable(accounts),
                  hasData |-> HasDataOf(accounts, transactions),
                  financialSummary |->
                      Some(SummaryOf(linkID, result, accounts, transactions, clock))]
    /\ pc' = "respond"
    /\ UNCHANGED <<clock, linkID, req, task, result, fetched, done, i, response>>
    /\ UNCHANGED <<cacheVars, buildVars, fetchVars, chatVars>>

\* linkID[:8]
CanSlice(s, n) == n <= Len(s)
Prefix(s, n) == SubSeq(s, 1, n)

\* lines 852-870
ViewOf(link, l) ==
    [kind |-> "view",
     link_id |-> link,
     owner_name |-> l.ownerName,
     account_count |-> Len(l.accounts),
     accounts |-> l.accounts,
     transaction_count |-> Len(l.transactions),
     recent_transactions |-> l.transactions,
     total_balance |-> l.totalBalance,
     currency |-> "BRL",
     has_data |-> l.hasData,
     financial_summary |-> l.financialSummary,
     ai_context_link |-> Prefix(link, ShortIdLen)]

\* the handler storing the derived summary itself before it answers
Respond_Mut ==
    /\ pc = "respond"
    /\ IF CanSlice(linkID, ShortIdLen)
       THEN /\ response' = Some(ViewOf(linkID, loc))
            /\ pc' = "returned"
       ELSE /\ response' = response
            /\ pc' = "panicked"
    /\ cache' = MapAssign(cache, linkID,
                          [Summary |-> Deref(loc.financialSummary), LinkID |-> linkID,
                           OwnerName |-> loc.ownerName, CachedAt |-> clock,
                           ExpiresAt |-> ExpiryOf(clock)])
    /\ UNCHANGED <<clock, linkID, req, task, result, fetched, done, i, loc>>
    /\ UNCHANGED <<mu, callers, lastStore, lastLock, crashed, build, chat, cacheReq, call>>

\* lines 822-871: the context string (linkID[:8], line 847) and the view
Respond ==
    /\ pc = "respond"
    /\ IF CanSlice(linkID, ShortIdLen)
       THEN /\ response' = Some(ViewOf(linkID, loc))
            /\ pc' = "returned"
       ELSE /\ response' = response
            /\ pc' = "panicked"
    /\ UNCHANGED <<clock, linkID, req, task, result, fetched, done, i, loc>>
    /\ UNCHANGED <<cacheVars, buildVars, fetchVars, chatVars>>

(***************************************************************************)
(* Context Cache                                                           *)
(***************************************************************************)
Callers == {"c1", "c2"}
NoCaller == "none"

\* summaries and owner names the callers of StoreContext pass
SummaryA ==
    createFinancialSummaryFromData(LongLink, <<[Available |-> 1000, Currency |-> "BRL"]>>,
                                   <<[Type |-> "INFLOW", Amount |-> 6000]>>, <<>>, 0)
SummaryB == createBasicFinancialSummary(ShortLink, <<>>, <<>>, 0)
StoreArgs == {[summary |-> SummaryA, owner |-> "Ana"],
              [summary |-> SummaryB, owner |-> UnknownCustomer]}


IdleCaller ==
    [op |-> "none", pc |-> "idle", key |-> ShortLink, summary |-> Nil, owner |-> "",
     cached |-> Nil, now |-> 0, ret |-> NotFound]
\* cached: the entry GetCachedContext read (for StoreContext, history: the
\* entry it replaced); now: the time.Now() reading of the call

\* lines 65-81: the result of GetCachedContext(k) run at time now on map c
LookupResult(c, k, now) ==
    LET e == Entry(c, k)
    IN IF e = Nil THEN NotFound
       ELSE IF Expired(now, Deref(e)) THEN NotFound
       ELSE Found(Deref(e).Summary)

Alive == ~crashed

\* a store that takes mu.RLock() in place of mu.Lock(): other stores are not kept out
StoreLock_Mut(c) ==
    /\ Alive
    /\ callers[c].pc = "idle"
    /\ mu' = [mu EXCEPT !.writer = c]
    /\ \E k \in CacheKeys, a \in StoreArgs :
          /\ callers' = [callers EXCEPT ![c] =
                 [IdleCaller EXCEPT !.op = "store", !.pc = "s_write", !.key = k,
                                    !.summary = Some(a.summary), !.owner = a.owner]]
          /\ lastLock' = [lastLock EXCEPT ![k] =
                             Some([Summary |-> a.summary, OwnerName |-> a.owner])]
    /\ UNCHANGED <<clock, cache, lastStore, crashed>>
    /\ UNCHANGED <<fanVars, buildVars, fetchVars, chatVars>>

\* line 51: StoreContext(linkID, summary, ownerName) acquires mu.Lock()
StoreLock(c) ==
    /\ Alive
    /\ callers[c].pc = "idle"
    /\ mu.writer = NoCaller
    /\ mu.readers = {}
    /\ mu' = [mu EXCEPT !.writer = c]
    /\ \E k \in CacheKeys, a \in StoreArgs :
          /\ callers' = [callers EXCEPT ![c] =
                 [IdleCaller EXCEPT !.op = "store", !.pc = "s_write", !.key = k,
                                    !.summary = Some(a.summary), !.owner = a.owner]]
          /\ lastLock' = [lastLock EXCEPT ![k] =
                             Some([Summary |-> a.summary, OwnerName |-> a.owner])]
    /\ UNCHANGED <<clock, cache, lastStore, crashed>>
    /\ UNCHANGED <<fanVars, buildVars, fetchVars, chatVars>>

\* lines 55-61: the entry is built (both time.Now() readings fall in the same
\* hour) and assigned to the map
StoreWrite(c) ==
    /\ Alive
    /\ callers[c].pc = "s_write"
    /\ LET me == callers[c]
           entry == [Summary |-> Deref(me.summary), LinkID |-> me.key,
                     OwnerName |-> me.owner, CachedAt |-> clock,
                     ExpiresAt |-> ExpiryOf(clock)]
       IN /\ cache' = MapAssign(cache, me.key, entry)
          /\ lastStore' = [lastStore EXCEPT ![me.key] =
                              Some([Summary |-> Deref(me.summary), OwnerName |-> me.owner,
                                    at |-> clock])]
    /\ callers' = [callers EXCEPT ![c].pc = "s_unlock", ![c].now = clock,
                                   ![c].cached = Entry(cache, callers[c].key)]
    /\ UNCHANGED <<clock, mu, lastLock, crashed>>
    /\ UNCHANGED <<fanVars, buildVars, fetchVars, chatVars>>

\* line 52: the deferred mu.Unlock(), and the return
StoreUnlock(c) ==
    /\ Alive
    /\ callers[c].pc = "s_unlock"
    /\ mu' = [mu EXCEPT !.writer = NoCaller]
    /\ callers' = [callers EXCEPT ![c] = IdleCaller]
    /\ UNCHANGED <<clock, cache, lastStore, lastLock, crashed>>
    /\ UNCHANGED <<fanVars, buildVars, fetchVars, chatVars>>

\* line 66: GetCachedContext(linkID) acquires mu.RLock()
GetRLock(c) ==
    /\ Alive
    /\ callers[c].pc = "idle"
    /\ mu.writer = NoCaller
    /\ mu' = [mu EXCEPT !.readers = @ \cup {c}]
    /\ \E k \in CacheKeys :
          callers' = [callers EXCEPT ![c] =
              [IdleCaller EXCEPT !.op = "get", !.pc = "g_lookup", !.key = k]]
    /\ UNCHANGED <<clock, cache, lastStore, lastLock, crashed>>
    /\ UNCHANGED <<fanVars, buildVars, fetchVars, chatVars>>

\* lines 70-73: cached, exists := contexts[sessionKey]
GetLookup(c) ==
    /\ Alive
    /\ callers[c].pc = "g_lookup"
    /\ LET found == Entry(cache, callers[c].key)
       IN callers' = [callers EXCEPT
              ![c].cached = found,
              ![c].now = clock,
              ![c].ret = NotFound,
              ![c].pc = IF found = Nil THEN "g_runlock" ELSE "g_check"]
    /\ UNCHANGED <<clock, cache, mu, lastStore, lastLock, crashed>>
    /\ UNCHANGED <<fanVars, buildVars, fetchVars, chatVars>>

\* lines 76, 80: the expiry test and the return of a fresh summary
GetCheck(c) ==
    /\ Alive
    /\ callers[c].pc = "g_check"
    /\ LET entry == Deref(callers[c].cached)
       IN IF Expired(clock, entry)
          THEN callers' = [callers EXCEPT ![c].now = clock, ![c].pc = "g_delete"]
          ELSE callers' = [callers EXCEPT ![c].now = clock, ![c].pc = "g_runlock",
                                          ![c].ret = Found(entry.Summary)]
    /\ UNCHANGED <<clock, cache, mu, lastStore, lastLock, crashed>>
    /\ UNCHANGED <<fanVars, buildVars, fetchVars, chatVars>>

\* lines 77-78: delete(contexts, sessionKey) made while holding the read lock
GetDelete(c) ==
    /\ Alive
    /\ callers[c].pc = "g_delete"
    /\ cache' = MapDelete(cache, callers[c].key)
    /\ callers' = [callers EXCEPT ![c].pc = "g_runlock", ![c].ret = NotFound]
    /\ UNCHANGED <<clock, mu, lastStore, lastLock, crashed>>
    /\ UNCHANGED <<fanVars, buildVars, fetchVars, chatVars>>

\* line 67: the deferred mu.RUnlock(), and the return of callers[c].ret
GetRUnlock(c) ==
    /\ Alive
    /\ callers[c].pc = "g_runlock"
    /\ mu' = [mu EXCEPT !.readers = @ \ {c}]
    /\ callers' = [callers EXCEPT ![c] = IdleCaller]
    /\ UNCHANGED <<clock, cache, lastStore, lastLock, crashed>>
    /\ UNCHANGED <<fanVars, buildVars, fetchVars, chatVars>>

\* the map access a caller is about to make: "write", "read" or "none"
MapAccess(c) ==
    CASE callers[c].pc \in {"s_write", "g_delete"} -> "write"
      [] callers[c].pc = "g_lookup" -> "read"
      [] OTHER -> "none"

\* two map accesses, one of them a write, that no lock orders
Racing(c, d) == c # d /\ MapAccess(c) = "write" /\ MapAccess(d) # "none"

\* line 77 under line 66: an unsynchronised map write is a data race; the
\* runtime may let it through (the actions above) or abort the process
\* ("fatal error: concurrent map writes" / "concurrent map read and map write")
FatalMapAccess ==
    /\ Alive
    /\ \E c \in Callers, d \in Callers : Racing(c, d)
    /\ crashed' = TRUE
    /\ UNCHANGED <<clock, cache, mu, callers, lastStore, lastLock>>
    /\ UNCHANGED <<fanVars, buildVars, fetchVars, chatVars>>

\* the passage of time between two steps
Tick ==
    /\ Alive
    /\ clock + HoursPerTick <= MaxClock
    /\ clock' = clock + HoursPerTick
    /\ UNCHANGED <<cache, mu, callers, lastStore, lastLock, crashed>>
    /\ UNCHANGED <<fanVars, buildVars, fetchVars, chatVars>>

(***************************************************************************)
(* CacheContextFromSummary and Chat                                        *)
(***************************************************************************)
\* StoreContext(k, summary, owner) run from Lock to Unlock at time now
StoreContext(c, k, summary, owner, now) ==
    MapAssign(c, k, [Summary |-> summary, LinkID |-> k, OwnerName |-> owner,
                     CachedAt |-> now, ExpiresAt |-> ExpiryOf(now)])

\* the map GetCachedContext(k) leaves when run from RLock to RUnlock at time now
AfterLookup(c, k, now) ==
    LET e == Entry(c, k)
    IN IF e # Nil /\ Expired(now, Deref(e)) THEN MapDelete(c, k) ELSE c

\* a summary whose total was written by the sender and matches no account
SummaryX == [SummaryA EXCEPT !.TotalBalance = Fx(999999)]

CacheRequests ==
    [bindOk : BOOLEAN, LinkID : LinkIds, OwnerName : {"Ana"},
     Summary : {Nil, Some(SummaryA), Some(SummaryX)}]

NoCacheReq == [status |-> "none", LinkID |-> EmptyLink]

\* POST /api/ai/cache-context, the whole handler
CacheContextFromSummary ==
    /\ cacheReq.status = "none"
    /\ \E request \in CacheRequests :
          IF ~request.bindOk
          THEN /\ cacheReq' = [status |-> "error", LinkID |-> EmptyLink]
               /\ UNCHANGED <<cache, lastStore, lastLock>>
          ELSE IF request.LinkID = EmptyLink \/ request.Summary = Nil
          THEN /\ cacheReq' = [status |-> "error", LinkID |-> request.LinkID]
               /\ UNCHANGED <<cache, lastStore, lastLock>>
          ELSE /\ cache' = StoreContext(cache, request.LinkID, Deref(request.Summary),
                                        request.OwnerName, clock)
               /\ lastStore' = [lastStore EXCEPT ![request.LinkID] =
                                   Some([Summary |-> Deref(request.Summary),
                                         OwnerName |-> request.OwnerName, at |-> clock])]
               /\ lastLock' = [lastLock EXCEPT ![request.LinkID] =
                                  Some([Summary |-> Deref(request.Summary),
                                        OwnerName |-> request.OwnerName])]
               /\ cacheReq' = [status |-> IF CanSlice(request.LinkID, ShortIdLen)
                                          THEN "success" ELSE "panicked",
                               LinkID |-> request.LinkID]
    /\ UNCHANGED <<clock, mu, callers, crashed, chat>>
    /\ UNCHANGED <<fanVars, buildVars, fetchVars>>

MockUser == <<"m", "o", "c", "k", "-", "u", "s", "e", "r">>
ZeroTime == -1

\* createMockFinancialSummaryWithIncome(monthlyIncome), monthlyIncome a multiple of 100
createMockFinancialSummaryWithIncome(monthlyIncome) ==
    LET fixedExpenses == (monthlyIncome * 35) \div 100
        variableExpenses == (monthlyIncome * 35) \div 100
        surplus == monthlyIncome - fixedExpenses - variableExpenses
    IN [UserID |-> MockUser,
        GeneratedAt |-> ZeroTime,
        MonthlyIncome |-> Fx(monthlyIncome),
        MonthlyFixedExpenses |-> Fx(fixedExpenses),
        MonthlyVariableExpenses |-> Fx(variableExpenses),
        MonthlySurplus |-> Fx(surplus),
        TotalBalance |-> Fx(surplus * 6),
        Accounts |-> <<>>,
        RecentTransactions |-> <<>>,
        IncomeStreams |-> <<>>,
        RecurringExpenses |-> <<>>,
        Currency |-> DefaultCurrency]

MockIncome == 8500

\* the order of the fetches of GetFinancialSummary
FetchOrder == <<"accounts", "transactions", "incomes", "recurringExpenses">>

\* what the provider answers to the fetches of GetFinancialSummary
ChatOutcomesOf(r) ==
    CASE r = "accounts" ->
            FetchOutcomes({<<>>, <<[Available |-> 1000, Currency |-> "BRL"],
                                  [Available |-> 250, Currency |-> "USD"]>>})
      [] r = "transactions" ->
            FetchOutcomes({<<>>, <<[Type |-> "INFLOW", Amount |-> 6000],
                                  [Type |-> "OUTFLOW", Amount |-> 4500]>>})
      [] r = "incomes" -> FetchOutcomes({<<>>, <<[MonthlyAverage |-> 5000]>>})
      [] r = "recurringExpenses" ->
            FetchOutcomes({<<>>, <<[AverageTransactionAmount |-> 1200]>>})

ChatRequests ==
    [bindOk : BOOLEAN, UserContext : {Nil, Some(SummaryB)},
     CredentialMode : {"test", "custom", "demo"}, LinkID : {EmptyLink, LongLink}]

NoData ==
    [accounts |-> <<>>, transactions |-> <<>>, incomes |-> <<>>, recurringExpenses |-> <<>>]

\* request: the bound ChatRequest, UserContext included; source, issued, looked,
\* seen, seenAt and stored are history: where UserContext came from, the
\* fetches sent to the provider, whether GetCachedContext was called, the entry
\* it found and when, whether this request called StoreContext, and the fetch
\* of GetFinancialSummary that returned an error
IdleChat ==
    [pc |-> "off", request |-> [bindOk |-> FALSE, UserContext |-> Nil,
                                CredentialMode |-> "demo", LinkID |-> EmptyLink],
     source |-> "none", issued |-> <<>>, data |-> NoData, looked |-> FALSE,
     seen |-> Nil, seenAt |-> 0,
     stored |-> FALSE, failed |-> "none", status |-> "none"]

\* lines 465-472 and the branch of lines 473-475, 497-498
ChatStart ==
    /\ chat.pc = "start"
    /\ \E request \in ChatRequests :
          IF ~request.bindOk
          THEN chat' = [chat EXCEPT !.pc = "done", !.status = "error"]
          ELSE IF request.UserContext # Nil
          THEN chat' = [chat EXCEPT !.pc = "ai", !.request = request, !.source = "request"]
          ELSE IF request.CredentialMode \in {"test", "custom"} /\ request.LinkID # EmptyLink
          THEN chat' = [chat EXCEPT !.pc = "lookup", !.request = request]
          ELSE chat' = [chat EXCEPT
                   !.pc = "ai", !.source = "mock",
                   !.request = [request EXCEPT !.UserContext =
                                   Some(createMockFinancialSummaryWithIncome(MockIncome))]]
    /\ UNCHANGED <<clock, fanVars, cacheVars, buildVars, fetchVars, cacheReq>>

\* a lookup that goes on to fetch whatever the cache answered
ChatLookup_Mut ==
    /\ chat.pc = "lookup"
    /\ cache' = AfterLookup(cache, chat.request.LinkID, clock)
    /\ chat' = [chat EXCEPT !.pc = "fetch", !.looked = TRUE,
                            !.seen = Entry(cache, chat.request.LinkID), !.seenAt = clock]
    /\ UNCHANGED <<clock, mu, callers, lastStore, lastLock, crashed>>
    /\ UNCHANGED <<fanVars, buildVars, fetchVars, cacheReq>>

\* lines 476-478: GetCachedContext(request.LinkID) and the use of what it found
ChatLookup ==
    /\ chat.pc = "lookup"
    /\ LET res == LookupResult(cache, chat.request.LinkID, clock)
       IN /\ cache' = AfterLookup(cache, chat.request.LinkID, clock)
          /\ chat' = [chat EXCEPT
                 !.pc = IF res.found THEN "ai" ELSE "fetch",
                 !.source = IF res.found THEN "cache" ELSE "none",
                 !.request.UserContext = res.summary,
                 !.looked = TRUE,
                 !.seen = Entry(cache, chat.request.LinkID),
                 !.seenAt = clock]
    /\ UNCHANGED <<clock, mu, callers, lastStore, lastLock, crashed>>
    /\ UNCHANGED <<fanVars, buildVars, fetchVars, cacheReq>>

\* a GetFinancialSummary that takes a failed fetch for an empty list and goes on
ChatFetch_Mut ==
    /\ chat.pc = "fetch"
    /\ LET r == FetchOrder[Len(chat.issued) + 1]
       IN \E out \in ChatOutcomesOf(r) :
            LET data == [chat.data EXCEPT ![r] = out.data]
                failed == IF out.err # NoErr THEN r ELSE chat.failed
            IN IF Len(chat.issued) + 1 < Len(FetchOrder)
               THEN chat' = [chat EXCEPT !.issued = Append(@, r), !.data = data,
                                         !.failed = failed]
               ELSE chat' = [chat EXCEPT
                        !.pc = "store", !.source = "fetch", !.data = NoData,
                        !.issued = Append(@, r), !.failed = failed,
                        !.request.UserContext =
                            Some(GetFinancialSummary(chat.request.LinkID, data.accounts,
                                                     data.transactions, data.incomes,
                                                     data.recurringExpenses, clock))]
    /\ UNCHANGED <<clock, fanVars, cacheVars, buildVars, fetchVars, cacheReq>>

\* lines 480-489, 492-493: the next fetch of GetFinancialSummary; the first
\* failure ends the call and the mock summary is used, the fourth success ends
\* it with the summary
ChatFetch ==
    /\ chat.pc = "fetch"
    /\ LET r == FetchOrder[Len(chat.issued) + 1]
       IN \E out \in ChatOutcomesOf(r) :
            LET data == [chat.data EXCEPT ![r] = out.data]
            IN IF out.err # NoErr
               THEN chat' = [chat EXCEPT
                        !.pc = "ai", !.source = "mock", !.data = NoData,
                        !.issued = Append(@, r), !.failed = r,
                        !.request.UserContext =
                            Some(createMockFinancialSummaryWithIncome(MockIncome))]
               ELSE IF Len(chat.issued) + 1 < Len(FetchOrder)
               THEN chat' = [chat EXCEPT !.issued = Append(@, r), !.data = data]
               ELSE chat' = [chat EXCEPT
                        !.pc = "store", !.source = "fetch", !.data = NoData,
                        !.issued = Append(@, r),
                        !.request.UserContext =
                            Some(GetFinancialSummary(chat.request.LinkID, data.accounts,
                                                     data.transactions, data.incomes,
                                                     data.recurringExpenses, clock))]
    /\ UNCHANGED <<clock, fanVars, cacheVars, buildVars, fetchVars, cacheReq>>

\* line 491: ah.StoreContext(request.LinkID, summary, "Unknown Customer")
ChatStore ==
    /\ chat.pc = "store"
    /\ LET k == chat.request.LinkID
           summary == Deref(chat.request.UserContext)
       IN /\ cache' = StoreContext(cache, k, summary, UnknownCustomer, clock)
          /\ lastStore' = [lastStore EXCEPT ![k] =
                              Some([Summary |-> summary, OwnerName |-> UnknownCustomer,
                                    at |-> clock])]
          /\ lastLock' = [lastLock EXCEPT ![k] =
                             Some([Summary |-> summary, OwnerName |-> UnknownCustomer])]
    /\ chat' = [chat EXCEPT !.pc = "ai", !.stored = TRUE]
    /\ UNCHANGED <<clock, mu, callers, crashed>>
    /\ UNCHANGED <<fanVars, buildVars, fetchVars, cacheReq>>

\* lines 502-518: the market data and the AI service, which answer or fail
ChatRespond ==
    /\ chat.pc = "ai"
    /\ \E status \in {"success", "error"} :
          chat' = [chat EXCEPT !.pc = "done", !.status = status]
    /\ UNCHANGED <<clock, fanVars, cacheVars, buildVars, fetchVars, cacheReq>>

(***************************************************************************)
(* The fetch functions of BelvoService                                     *)
(***************************************************************************)
StatusOK == 200
StatusCreated == 201
StatusServerError == 500

\* the statuses a fetch function takes as success
AcceptedStatus(r) ==
    IF r = "incomes" THEN {StatusOK} ELSE {StatusOK, StatusCreated}

\* an element of the JSON array in the body: decodes says whether it
\* unmarshals into the element type
WireItems(S) == [decodes : BOOLEAN, value : S]

WireItemLists(r) ==
    CASE r = "owners" -> SeqsUpTo(WireItems(BelvoOwner), MaxOwnersReturned)
      [] r = "accounts" -> SeqsUpTo(WireItems(BelvoAccount), MaxAccounts)
      [] r = "transactions" -> SeqsUpTo(WireItems(BelvoTransaction), MaxTransactions)
      [] r = "incomes" -> SeqsUpTo(WireItems(BelvoIncome), MaxIncomes)

\* what the provider does with a request: sent is client.Do returning without
\* error, readable is the body being read to its end, wellFormed is the body
\* being JSON of the expected shape
WireResponses(r) ==
    [sent : BOOLEAN, status : {StatusOK, StatusCreated, StatusServerError},
     readable : BOOLEAN, wellFormed : BOOLEAN, items : WireItemLists(r)]

ValuesOf(items) == [k \in 1..Len(items) |-> items[k].value]
Decodable(item) == item.decodes

\* a fetch function that returns what it had decoded together with the error
FetchReturn_Mut(r, wire) ==
    IF wire.sent /\ wire.readable /\ wire.wellFormed /\ wire.status \in AcceptedStatus(r)
          /\ (r = "incomes" \/ \A k \in 1..Len(wire.items) : wire.items[k].decodes)
    THEN [data |-> ValuesOf(SelectSeq(wire.items, Decodable)), err |-> NoErr]
    ELSE [data |-> ValuesOf(SelectSeq(wire.items, Decodable)), err |-> Failed]

\* GetOwners, GetAccounts, GetTransactions, GetIncomes: every error path
\* returns nil with the error; GetIncomes skips the results that do not decode,
\* the other three fail on the first element that does not
FetchReturn(r, wire) ==
    LET failure == [data |-> <<>>, err |-> Failed]
    IN IF ~wire.sent THEN failure
       ELSE IF ~wire.readable THEN failure
       ELSE IF wire.status \notin AcceptedStatus(r) THEN failure
       ELSE IF ~wire.wellFormed THEN failure
       ELSE IF r = "incomes"
       THEN [data |-> ValuesOf(SelectSeq(wire.items, Decodable)), err |-> NoErr]
       ELSE IF \E k \in 1..Len(wire.items) : ~wire.items[k].decodes THEN failure
       ELSE [data |-> ValuesOf(wire.items), err |-> NoErr]

NoCall ==
    [r |-> "owners",
     wire |-> [sent |-> FALSE, status |-> StatusServerError, readable |-> FALSE,
               wellFormed |-> FALSE, items |-> <<>>],
     ret |-> Nil, ownerName |-> Nil]

CallsOf(r) == {[NoCall EXCEPT !.r = r, !.wire = w] : w \in WireResponses(r)}
Calls == UNION {CallsOf(r) : r \in Resources}

\* the fetch function runs and returns
FetchCall ==
    /\ call.ret = Nil
    /\ call' = [call EXCEPT !.ret = Some(FetchReturn(call.r, call.wire))]
    /\ UNCHANGED <<clock, fanVars, cacheVars, buildVars, chatVars>>

\* lines 786-791 on what GetOwners returned: result.owners is read without a
\* look at result.ownerErr
NameOwner ==
    /\ call.r = "owners"
    /\ call.ret # Nil
    /\ call.ownerName = Nil
    /\ call' = [call EXCEPT !.ownerName = Some(OwnerNameOf(Deref(call.ret).data))]
    /\ UNCHANGED <<clock, fanVars, cacheVars, buildVars, chatVars>>

(***************************************************************************)
(* The two summary builders applied to one set of inputs                   *)
(***************************************************************************)
NoBuild ==
    [pc |-> "off", accounts |-> <<>>, transactions |-> <<>>, incomes |-> <<>>,
     recurringExpenses |-> <<>>, fromData |-> Nil, fromService |-> Nil, again |-> Nil]

BuildInputs ==
    {[NoBuild EXCEPT !.pc = "start", !.accounts = a, !.transactions = t,
                     !.incomes = n, !.recurringExpenses = e] :
        a \in AccountLists, t \in TransactionLists, n \in IncomeLists, e \in RecurringLists}

\* a call of createFinancialSummaryFromData(linkID, accounts, transactions, incomes)
BuildFromData ==
    /\ build.pc = "start"
    /\ build' = [build EXCEPT
           !.pc = "data",
           !.fromData = Some(createFinancialSummaryFromData(
                                LongLink, build.accounts, build.transactions,
                                build.incomes, clock))]
    /\ UNCHANGED <<clock, fanVars, cacheVars, chatVars, fetchVars>>

\* lines 529-603 of GetFinancialSummary(linkID) on the same data
BuildFromService ==
    /\ build.pc = "data"
    /\ build' = [build EXCEPT
           !.pc = "service",
           !.fromService = Some(GetFinancialSummary(
                                   LongLink, build.accounts, build.transactions,
                                   build.incomes, build.recurringExpenses, clock))]
    /\ UNCHANGED <<clock, fanVars, cacheVars, chatVars, fetchVars>>

\* time passing before the builder is called again
BuildTick ==
    /\ build.pc = "service"
    /\ Tick

\* a second call of createFinancialSummaryFromData with the same arguments
BuildFromDataAgain ==
    /\ build.pc = "service"
    /\ build' = [build EXCEPT
           !.pc = "again",
           !.again = Some(createFinancialSummaryFromData(
                             LongLink, build.accounts, build.transactions,
                             build.incomes, clock))]
    /\ UNCHANGED <<clock, fanVars, cacheVars, chatVars, fetchVars>>

(***************************************************************************)
(* Specifications                                                          *)
(***************************************************************************)
\* a cache content a run of the server can have left: nothing, or one store
StoredEntry(k, a, at) ==
    [Summary |-> a.summary, LinkID |-> k, OwnerName |-> a.owner,
     CachedAt |-> at, ExpiresAt |-> ExpiryOf(at)]

InitCacheVars ==
    /\ cache = EmptyCache
    /\ lastStore = [k \in CacheKeys |-> Nil]
    /\ mu = [writer |-> NoCaller, readers |-> {}]
    /\ lastLock = [k \in CacheKeys |-> Nil]
    /\ callers = [c \in Callers |-> IdleCaller]
    /\ crashed = FALSE

InitFanVars ==
    /\ pc = "start"
    /\ task = [r \in Resources |-> "unspawned"]
    /\ result = EmptyResult
    /\ fetched = [r \in Resources |-> Nil]
    /\ done = 0
    /\ i = 0
    /\ loc = NoLocals
    /\ response = Nil

\* one GetDetailedLinkInfo request, made while the cache holds what a
\* StoreContext for another link left at hour 0
Init ==
    /\ clock = HoursPerTick
    /\ linkID \in LinkIds
    /\ req \in Requests
    /\ InitFanVars
    /\ mu = [writer |-> NoCaller, readers |-> {}]
    /\ callers = [c \in Callers |-> IdleCaller]
    /\ crashed = FALSE
    /\ cache = MapAssign(EmptyCache, ShortLink,
                         StoredEntry(ShortLink, [summary |-> SummaryB, owner |-> "Ana"], 0))
    /\ lastStore = [k \in CacheKeys |->
                      IF k = ShortLink
                      THEN Some([Summary |-> SummaryB, OwnerName |-> "Ana", at |-> 0])
                      ELSE Nil]
    /\ lastLock = [k \in CacheKeys |->
                     IF k = ShortLink
                     THEN Some([Summary |-> SummaryB, OwnerName |-> "Ana"])
                     ELSE Nil]
    /\ build = NoBuild
    /\ chat = IdleChat
    /\ cacheReq = NoCacheReq
    /\ call = NoCall

Next ==
    \/ ValidateRequest
    \/ SpawnTask
    \/ \E r \in Resources : TaskRun(r)
    \/ JoinReceive
    \/ DeriveSummary
    \/ Respond

Spec == Init /\ [][Next]_vars

\* the same request with a provider that may leave a fetch unanswered; the Go
\* scheduler runs every goroutine that can take a step, so each step of the
\* handler and of its tasks is weakly fair
LiveNext ==
    \/ Next
    \/ \E r \in Resources : TaskStall(r)
    \/ \E r \in Resources : TaskTimeout(r)

LiveSpec == Init /\ [][LiveNext]_vars /\ WF_vars(LiveNext)

\* concurrent callers of the cache; no GetDetailedLinkInfo request in flight
CacheInit ==
    /\ clock = 0
    /\ linkID = EmptyLink
    /\ req = [bindOk |-> FALSE, SecretID |-> "", SecretKey |-> ""]
    /\ InitFanVars
    /\ InitCacheVars
    /\ build = NoBuild
    /\ chat = IdleChat
    /\ cacheReq = NoCacheReq
    /\ call = NoCall

CacheNext ==
    \/ \E c \in Callers : StoreLock(c)
    \/ \E c \in Callers : StoreWrite(c)
    \/ \E c \in Callers : StoreUnlock(c)
    \/ \E c \in Callers : GetRLock(c)
    \/ \E c \in Callers : GetLookup(c)
    \/ \E c \in Callers : GetCheck(c)
    \/ \E c \in Callers : GetDelete(c)
    \/ \E c \in Callers : GetRUnlock(c)
    \/ FatalMapAccess
    \/ Tick

CacheSpec == CacheInit /\ [][CacheNext]_vars

\* the builders called on every combination of inputs; no request in flight
BuildInit ==
    /\ clock = 0
    /\ linkID = EmptyLink
    /\ req = [bindOk |-> FALSE, SecretID |-> "", SecretKey |-> ""]
    /\ InitFanVars
    /\ InitCacheVars
    /\ build \in BuildInputs
    /\ chat = IdleChat
    /\ cacheReq = NoCacheReq
    /\ call = NoCall

BuildNext ==
    \/ BuildFromData
    \/ BuildFromService
    \/ BuildTick
    \/ BuildFromDataAgain

BuildSpec == BuildInit /\ [][BuildNext]_vars

\* one Chat request and one cache-context request, in any order, as time passes
ChatInit ==
    /\ clock = 0
    /\ linkID = EmptyLink
    /\ req = [bindOk |-> FALSE, SecretID |-> "", SecretKey |-> ""]
    /\ InitFanVars
    /\ InitCacheVars
    /\ build = NoBuild
    /\ chat = [IdleChat EXCEPT !.pc = "start"]
    /\ cacheReq = NoCacheReq
    /\ call = NoCall

ChatNext ==
    \/ CacheContextFromSummary
    \/ ChatStart
    \/ ChatLookup
    \/ ChatFetch
    \/ ChatStore
    \/ ChatRespond
    \/ Tick

ChatSpec == ChatInit /\ [][ChatNext]_vars

\* one call of a fetch function, for every resource and every behaviour of the
\* provider; an owners call is followed by the derivation of the owner name
FetchInit ==
    /\ clock = 0
    /\ linkID = EmptyLink
    /\ req = [bindOk |-> FALSE, SecretID |-> "", SecretKey |-> ""]
    /\ InitFanVars
    /\ InitCacheVars
    /\ build = NoBuild
    /\ chat = IdleChat
    /\ cacheReq = NoCacheReq
    /\ call \in Calls

FetchNext ==
    \/ FetchCall
    \/ NameOwner

FetchSpec == FetchInit /\ [][FetchNext]_vars

(***************************************************************************)
(* Properties of GetDetailedLinkInfo (specification Spec)                  *)
(***************************************************************************)
AfterJoin == {"derive", "respond", "returned", "panicked"}
Derived == {"respond", "returned", "panicked"}

FetchFailed(r) == fetched[r] # Nil /\ Deref(fetched[r]).err # NoErr
FetchSucceeded(r) == fetched[r] # Nil /\ Deref(fetched[r]).err = NoErr
\* what a resource has to contribute: its data if its fetch succeeded, else nothing
Contribution(r) == IF FetchSucceeded(r) THEN Deref(fetched[r]).data ELSE <<>>

ValidRequest ==
    linkID # EmptyLink /\ req.bindOk /\ req.SecretID # "" /\ req.SecretKey # ""

\* C1: the handler does not go past the join (to derive the owner name, the
\* summary or the response) before each of the four fetch goroutines has
\* finished its fetch, with success or failure, and sent its completion signal;
\* while it spawns and waits it has neither answered nor derived anything.
C1_JoinWaitsForAll ==
    /\ pc \in AfterJoin =>
          \A r \in Resources : task[r] = "exited" /\ fetched[r] # Nil
    /\ pc \in {"spawn", "wait"} => response = Nil /\ loc = NoLocals

\* the join has completed after a run in which a fetch failed before another succeeded
C1_Witness ==
    /\ pc = "derive"
    /\ FetchFailed("owners")
    /\ FetchFailed("transactions")
    /\ FetchSucceeded("accounts")
    /\ FetchSucceeded("incomes")

\* C2: once the summary is derived, every resource contributes exactly what its
\* own fetch returned, or the empty list if its own fetch failed, whatever the
\* outcome of the three other fetches; the same lists are in the returned view.
C2_FailuresAreIndependent ==
    /\ pc \in Derived =>
          LET fs == Deref(loc.financialSummary)
          IN /\ loc.accounts = Contribution("accounts")
             /\ loc.transactions = Contribution("transactions")
             /\ fs.Accounts = Contribution("accounts")
             /\ fs.RecentTransactions = Contribution("transactions")
             /\ fs.IncomeStreams = Contribution("incomes")
             /\ loc.ownerName = OwnerNameOf(Contribution("owners"))
    /\ pc = "returned" =>
          LET view == Deref(response)
          IN /\ view.accounts = Contribution("accounts")
             /\ view.recent_transactions = Contribution("transactions")
             /\ Deref(view.financial_summary).Accounts = Contribution("accounts")
             /\ Deref(view.financial_summary).RecentTransactions = Contribution("transactions")
             /\ Deref(view.financial_summary).IncomeStreams = Contribution("incomes")
             /\ view.owner_name = OwnerNameOf(Contribution("owners"))

\* a view returned with the accounts of a run whose transactions and incomes failed
C2_Witness ==
    /\ pc = "returned"
    /\ FetchFailed("transactions")
    /\ FetchFailed("incomes")
    /\ FetchSucceeded("accounts")
    /\ Len(Deref(response).accounts) = MaxAccounts
    /\ Deref(response).recent_transactions = <<>>

AllFetchesFailed == \A r \in Resources : FetchFailed(r)

\* C3: if all four fetches fail, the handler ends by returning a view, not an
\* error: summary figures all zero, accounts and transactions empty, has_data false.
C3_AllFailedStillReturnsView ==
    (pc \in {"returned", "panicked", "failed"} /\ AllFetchesFailed) =>
        /\ pc = "returned"
        /\ LET view == Deref(response)
               fs == Deref(view.financial_summary)
           IN /\ view.kind = "view"
              /\ fs.TotalBalance = 0
              /\ fs.MonthlyIncome = 0
              /\ fs.MonthlyFixedExpenses = 0
              /\ fs.MonthlyVariableExpenses = 0
              /\ fs.MonthlySurplus = 0
              /\ view.accounts = <<>>
              /\ view.recent_transactions = <<>>
              /\ view.has_data = FALSE

\* C4: with the transactions fetch failed and the accounts fetch succeeded with
\* at least one account, has_data is true, TotalBalance is the sum of the
\* available balances of those accounts, the income is the income streams' sum
\* alone (nothing derived from transactions) and the variable expenses are zero.
C4_DegradesToAccounts ==
    (pc \in Derived /\ FetchFailed("transactions") /\ FetchSucceeded("accounts")
       /\ Len(Contribution("accounts")) >= 1) =>
        LET fs == Deref(loc.financialSummary)
        IN /\ loc.hasData = TRUE
           /\ fs.TotalBalance = SumAvailable(Contribution("accounts"))
           /\ fs.TotalBalance > 0
           /\ fs.MonthlyIncome = SumMonthlyAverage(Contribution("incomes"))
           /\ fs.MonthlyVariableExpenses = 0
           /\ pc = "returned" =>
                 /\ Deref(response).has_data = TRUE
                 /\ Deref(response).financial_summary = loc.financialSummary
                 /\ Deref(response).total_balance = fs.TotalBalance

\* a view returned for two accounts and no transactions data
C4_Witness ==
    /\ pc = "returned"
    /\ FetchFailed("transactions")
    /\ FetchSucceeded("accounts")
    /\ Deref(response).has_data
    /\ Deref(Deref(response).financial_summary).TotalBalance = Fx(1250)

\* C5: a request with a non-empty link id and non-empty credentials never ends
\* in an error or a panic; it ends with a view holding a summary and has_data.
C5_ValidRequestNeverFails ==
    ValidRequest =>
        /\ pc \notin {"failed", "panicked"}
        /\ pc = "returned" =>
              /\ Deref(response).kind = "view"
              /\ Deref(response).financial_summary # Nil
              /\ Deref(response).has_data \in BOOLEAN

Getting(c) == callers[c].op = "get" /\ callers[c].pc = "g_runlock"
Stored(c) == callers[c].op = "store" /\ callers[c].pc = "s_unlock"

\* C6: a GetCachedContext about to return gives a summary only if it read an
\* entry whose expiry had not passed at its time reading, and then that entry's
\* summary; for an entry whose expiry had passed it gives (nil, false), as for
\* an absent key, and the key is gone from the map.
C6_NoExpiredEntryReturned ==
    \A c \in Callers : Getting(c) =>
        LET me == callers[c]
        IN /\ me.ret.found =>
                 /\ me.cached # Nil
                 /\ me.now <= Deref(me.cached).ExpiresAt
                 /\ me.ret.summary = Some(Deref(me.cached).Summary)
           /\ me.cached = Nil => me.ret = NotFound
           /\ (me.cached # Nil /\ me.now > Deref(me.cached).ExpiresAt) =>
                 /\ me.ret = NotFound
                 /\ cache[me.key] = Nil

\* a lookup has found an expired entry, evicted it and is about to return
C6_Witness ==
    \E c \in Callers :
        /\ Getting(c)
        /\ callers[c].cached # Nil
        /\ callers[c].now > Deref(callers[c].cached).ExpiresAt
        /\ callers[c].ret = NotFound
        /\ cache[callers[c].key] = Nil

\* C7: relative to the last StoreContext of its key, a GetCachedContext whose
\* time reading is less than 24 hours after the store returns the stored
\* summary with found = true, and one more than 24 hours after returns found = false.
C7_TimeToLive ==
    \A c \in Callers : (Getting(c) /\ lastStore[callers[c].key] # Nil) =>
        LET me == callers[c]
            last == Deref(lastStore[me.key])
        IN /\ me.now - last.at < TTLHours => me.ret = Found(last.Summary)
           /\ me.now - last.at > TTLHours => me.ret = NotFound

\* a lookup made 16 hours or so after the store has found the stored summary
C7_Witness ==
    \E c \in Callers :
        /\ Getting(c)
        /\ lastStore[callers[c].key] # Nil
        /\ callers[c].now > Deref(lastStore[callers[c].key]).at + HoursPerTick
        /\ callers[c].now < Deref(lastStore[callers[c].key]).at + TTLHours
        /\ callers[c].ret.found

\* C8: a StoreContext leaves in the map, under its key, its own entry with
\* expiry 24 hours after the store, whatever was there; and every entry of the
\* map is the one written by the last store of its key.
C8_LastStoreWins ==
    /\ \A c \in Callers : Stored(c) =>
          LET me == callers[c]
          IN cache[me.key] = Some([Summary |-> Deref(me.summary), LinkID |-> me.key,
                                   OwnerName |-> me.owner, CachedAt |-> me.now,
                                   ExpiresAt |-> me.now + TTLHours])
    /\ \A k \in CacheKeys : cache[k] # Nil =>
          /\ lastStore[k] # Nil
          /\ Deref(cache[k]).Summary = Deref(lastStore[k]).Summary
          /\ Deref(cache[k]).OwnerName = Deref(lastStore[k]).OwnerName
          /\ Deref(cache[k]).LinkID = k
          /\ Deref(cache[k]).ExpiresAt = Deref(lastStore[k]).at + TTLHours

\* a store has replaced a fresh entry that held another summary
C8_Witness ==
    \E c \in Callers :
        /\ Stored(c)
        /\ callers[c].cached # Nil
        /\ Deref(callers[c].cached).Summary # Deref(callers[c].summary)
        /\ callers[c].now <= Deref(callers[c].cached).ExpiresAt
        /\ Deref(cache[callers[c].key]).Summary = Deref(callers[c].summary)

HoldsLock(c) == c \in mu.readers \/ mu.writer = c

\* C9: while a caller is at a statement that mutates the map (the assignment
\* of StoreContext, the delete of GetCachedContext) no other caller holds the
\* lock, for reading or for writing.
C9_MutationExcludesAll ==
    \A c \in Callers : MapAccess(c) = "write" =>
        \A d \in Callers \ {c} : ~HoldsLock(d)

(***************************************************************************)
(* Properties of the Summary Builder                                       *)
(***************************************************************************)
\* the summaries the builders have returned so far
Built == {Deref(p) : p \in {build.fromData, build.fromService, build.again} \ {Nil}}

AvailableOf(accounts) == [k \in 1..Len(accounts) |-> accounts[k].Available]
AmountsOfType(transactions, type) ==
    [k \in 1..Len(transactions) |->
        IF transactions[k].Type = type THEN transactions[k].Amount ELSE 0]

\* C12: every summary returned by createFinancialSummaryFromData and by
\* GetFinancialSummary has MonthlySurplus = MonthlyIncome - MonthlyFixedExpenses
\* - MonthlyVariableExpenses; the surplus is not floored, so it is negative
\* exactly when the expenses exceed the income.
C12_SurplusIdentity ==
    \A s \in Built :
        /\ s.MonthlySurplus =
              s.MonthlyIncome - s.MonthlyFixedExpenses - s.MonthlyVariableExpenses
        /\ (s.MonthlySurplus < 0) <=>
              (s.MonthlyFixedExpenses + s.MonthlyVariableExpenses > s.MonthlyIncome)

\* both builders have returned a summary whose expenses exceed its income
C12_Witness ==
    /\ build.fromData # Nil
    /\ build.fromService # Nil
    /\ Deref(build.fromData).MonthlySurplus < 0
    /\ Deref(build.fromService).MonthlySurplus < 0
    /\ Deref(build.fromService).MonthlyFixedExpenses > 0

\* C13: in every summary of either builder TotalBalance is the sum of
\* Balance.Available over the accounts embedded in that summary, which are the
\* accounts passed in; it is 0 when there are none.
C13_TotalBalanceIsSumOfAccounts ==
    \A s \in Built :
        /\ s.Accounts = build.accounts
        /\ s.TotalBalance = Fx(SumSeq(AvailableOf(s.Accounts)))
        /\ s.Accounts = <<>> => s.TotalBalance = 0

\* both builders have summed two accounts
C13_Witness ==
    /\ build.fromData # Nil
    /\ build.fromService # Nil
    /\ Len(build.accounts) >= 2
    /\ Deref(build.fromService).TotalBalance > Fx(build.accounts[1].Available)

\* C19: createFinancialSummaryFromData counts an INFLOW amount as inflow, an
\* OUTFLOW amount as outflow and an amount of any other type as neither;
\* MonthlyVariableExpenses is the total outflow / 3, and without income streams
\* MonthlyIncome is the total inflow / 3; with no transactions both are 0.
C19_PartitionByType ==
    build.fromData # Nil =>
        LET s == Deref(build.fromData)
            inflow == Fx(SumSeq(AmountsOfType(build.transactions, "INFLOW")))
            outflow == Fx(SumSeq(AmountsOfType(build.transactions, "OUTFLOW")))
        IN /\ MonthsOfData * s.MonthlyVariableExpenses = outflow
           /\ build.incomes = <<>> => MonthsOfData * s.MonthlyIncome = inflow
           /\ (build.transactions = <<>> /\ build.incomes = <<>>) =>
                 s.MonthlyIncome = 0 /\ s.MonthlyVariableExpenses = 0

\* the builder was given a transaction of another type next to an OUTFLOW
C19_Witness ==
    /\ build.fromData # Nil
    /\ build.incomes = <<>>
    /\ \E k \in 1..Len(build.transactions) :
          build.transactions[k].Type \notin {"INFLOW", "OUTFLOW"}
    /\ \E k \in 1..Len(build.transactions) : build.transactions[k].Type = "OUTFLOW"
    /\ Deref(build.fromData).MonthlyVariableExpenses > 0

C14_HasDataIffAccountsOrTransactions ==
    LET expected == \/ Len(Contribution("accounts")) > 0
                    \/ Len(Contribution("transactions")) > 0
    IN /\ pc \in Derived => loc.hasData = expected
       /\ pc = "returned" => Deref(response).has_data = expected

\* owners and incomes were delivered, the accounts fetch succeeded with an
\* empty list, the transactions fetch failed, and the view says has_data = false
C14_Witness ==
    /\ pc = "returned"
    /\ FetchSucceeded("owners") /\ Len(Contribution("owners")) > 0
    /\ FetchSucceeded("incomes") /\ Len(Contribution("incomes")) > 0
    /\ FetchSucceeded("accounts") /\ Contribution("accounts") = <<>>
    /\ FetchFailed("transactions")
    /\ ~Deref(response).has_data

MonthlyAverageOf(incomes) == [k \in 1..Len(incomes) |-> incomes[k].MonthlyAverage]

\* C18: the summary of the view has MonthlyIncome equal to the sum of the
\* MonthlyAverage of the income streams delivered when that sum is not zero,
\* and to the total inflow / 3 otherwise: when the incomes fetch succeeded with
\* streams summing to zero and when it failed.
C18_IncomeFallback ==
    pc \in Derived =>
        LET s == Deref(loc.financialSummary)
            streams == Fx(SumSeq(MonthlyAverageOf(Contribution("incomes"))))
            inflow == Fx(SumSeq(AmountsOfType(Contribution("transactions"), "INFLOW")))
        IN /\ streams # 0 => s.MonthlyIncome = streams
           /\ streams = 0 => MonthsOfData * s.MonthlyIncome = inflow
           /\ pc = "returned" => Deref(response).financial_summary = loc.financialSummary

\* the incomes fetch succeeded with a stream of average zero, an INFLOW was
\* delivered, and the view carries the income estimated from it
C18_Witness ==
    /\ pc = "returned"
    /\ FetchSucceeded("incomes")
    /\ Len(Contribution("incomes")) > 0
    /\ SumSeq(MonthlyAverageOf(Contribution("incomes"))) = 0
    /\ SumSeq(AmountsOfType(Contribution("transactions"), "INFLOW")) > 0
    /\ Deref(Deref(response).financial_summary).MonthlyIncome > 0

\* the incomes fetch failed and the income is the one estimated from the inflow
C18_WitnessFetchFailed ==
    /\ pc = "returned"
    /\ FetchFailed("incomes")
    /\ SumSeq(AmountsOfType(Contribution("transactions"), "INFLOW")) > 0
    /\ MonthsOfData * Deref(Deref(response).financial_summary).MonthlyIncome
          = Fx(SumSeq(AmountsOfType(Contribution("transactions"), "INFLOW")))

(***************************************************************************)
(* Further properties of the Context Cache                                 *)
(***************************************************************************)
\* a StoreContext holds the write lock for key k and has not assigned yet
StoreInFlight(k) ==
    \E c \in Callers : callers[c].pc = "s_write" /\ callers[c].key = k

\* C11: with stores issued by concurrent callers there is at most one entry
\* per link, and once no store of that link is in flight the entry is that of
\* the store that took the write lock last: its summary, its owner name and
\* the expiry of its write, never fields of two stores.
C11_LastLockerWinsWhole ==
    \A k \in CacheKeys :
        /\ Cardinality({j \in CacheKeys : cache[j] # Nil /\ Deref(cache[j]).LinkID = k}) <= 1
        /\ (cache[k] # Nil /\ ~StoreInFlight(k)) =>
              /\ lastLock[k] # Nil
              /\ lastStore[k] # Nil
              /\ [Summary |-> Deref(cache[k]).Summary,
                  OwnerName |-> Deref(cache[k]).OwnerName] = Deref(lastLock[k])
              /\ [Summary |-> Deref(lastStore[k]).Summary,
                  OwnerName |-> Deref(lastStore[k]).OwnerName] = Deref(lastLock[k])
              /\ Deref(cache[k]).ExpiresAt = Deref(lastStore[k]).at + TTLHours
              /\ Deref(cache[k]).CachedAt = Deref(lastStore[k]).at

\* two stores of one link with different summaries and owner names were made
\* within the same hour; the second has written and the first's entry is gone
C11_Witness ==
    \E c \in Callers :
        /\ Stored(c)
        /\ callers[c].cached # Nil
        /\ Deref(callers[c].cached).CachedAt = callers[c].now
        /\ Deref(callers[c].cached).Summary # Deref(callers[c].summary)
        /\ Deref(callers[c].cached).OwnerName # callers[c].owner
        /\ Deref(lastLock[callers[c].key]).OwnerName = callers[c].owner
        /\ Deref(cache[callers[c].key]).OwnerName = callers[c].owner

(***************************************************************************)
(* Termination of the fan-out                                              *)
(***************************************************************************)
\* the handler is in the join loop with nothing buffered, and every fetch has
\* either ended or is stalled with no timeout to end it
BlockedJoin ==
    /\ pc = "wait"
    /\ done = 0
    /\ \A r \in Resources :
          task[r] = "exited" \/ (task[r] = "stalled" /\ ~HasTimeout(r))

\* C16: also when the provider leaves a fetch unanswered the join is never
\* blocked for good: every fetch ends by an answer or by its own timeout, the
\* timeout counting as a failure of that resource.
C16_JoinNeverBlocked == ~BlockedJoin

\* C16 as a liveness property: every request reaches the end of the join, or
\* fails validation before the fan-out.
C16_JoinEventuallyCompletes ==
    <>(pc \in {"failed", "derive", "respond", "returned", "panicked"})

\* where the client has a timeout the stalled fetch ends as a failure and the
\* request completes
C16_TimeoutIsOrdinaryFailure ==
    (task["incomes"] = "exited" /\ fetched["incomes"] # Nil
        /\ Deref(fetched["incomes"]).err # NoErr) =>
        result.summaryErr # NoErr

(***************************************************************************)
(* Properties of Chat                                                      *)
(***************************************************************************)
\* the request is one for which Chat consults the cache
Eligible(request) ==
    /\ request.CredentialMode \in {"test", "custom"}
    /\ request.LinkID # EmptyLink

\* GetCachedContext found an entry that had not expired
SawFresh == chat.looked /\ chat.seen # Nil /\ chat.seenAt <= Deref(chat.seen).ExpiresAt

\* C15: a Chat request without user context, in credential mode test or custom
\* and with a link id, that finds an entry not yet expired uses its summary as
\* the user context and sends no fetch to the provider; fetches are sent only
\* after a lookup that found nothing or an expired entry; and the cache is
\* written by Chat only with the summary of a fetch that succeeded in full.
C15_CacheFirst ==
    /\ [](/\ SawFresh =>
               /\ chat.source = "cache"
               /\ chat.request.UserContext = Some(Deref(chat.seen).Summary)
               /\ chat.issued = <<>>
               /\ ~chat.stored
          /\ chat.issued # <<>> =>
               /\ Eligible(chat.request)
               /\ chat.looked
               /\ ~SawFresh
          /\ chat.source = "fetch" =>
               /\ Len(chat.issued) = Len(FetchOrder)
               /\ Deref(chat.request.UserContext).UserID = chat.request.LinkID
          /\ chat.stored => chat.source = "fetch"
          /\ (chat.pc \in {"fetch", "store", "ai", "done"} /\ Eligible(chat.request)
                 /\ chat.source # "request") => chat.looked)
    /\ [][(chat' # chat /\ \E k \in CacheKeys : cache'[k] # cache[k] /\ cache'[k] # Nil) =>
             /\ chat.source = "fetch"
             /\ chat'.stored
             /\ cache'[chat.request.LinkID] =
                   Some([Summary |-> Deref(chat.request.UserContext),
                         LinkID |-> chat.request.LinkID,
                         OwnerName |-> UnknownCustomer,
                         CachedAt |-> clock, ExpiresAt |-> clock + TTLHours])]_vars

\* a Chat request found an entry stored hours before and not yet expired, and
\* was answered with its summary without any fetch
C15_Witness ==
    /\ chat.pc = "done"
    /\ chat.status = "success"
    /\ SawFresh
    /\ chat.seenAt > Deref(chat.seen).CachedAt
    /\ chat.source = "cache"
    /\ chat.issued = <<>>

\* a Chat request found an expired entry, fetched, and stored what it fetched
C15_WitnessExpired ==
    /\ chat.looked
    /\ chat.seen # Nil
    /\ chat.seenAt > Deref(chat.seen).ExpiresAt
    /\ chat.stored
    /\ cache[chat.request.LinkID] # Nil
    /\ Deref(cache[chat.request.LinkID]).Summary = Deref(chat.request.UserContext)

\* a fetch of GetFinancialSummary failed after a miss: the mock summary is the
\* context and nothing was stored
C15_WitnessFetchFailed ==
    /\ chat.looked
    /\ chat.seen = Nil
    /\ chat.source = "mock"
    /\ Len(chat.issued) = 3
    /\ cache[chat.request.LinkID] = Nil

\* C17: every summary GetCachedContext returns, whoever stored it, has
\* TotalBalance equal to the sum of the available balances of its accounts.
C17_CachedTotalIsDerived ==
    chat.source = "cache" =>
        LET s == Deref(chat.request.UserContext)
        IN s.TotalBalance = Fx(SumSeq(AvailableOf(s.Accounts)))

\* what Chat itself stores does have a derived total
C17_ChatStoresDerivedTotal ==
    chat.stored =>
        LET s == Deref(chat.request.UserContext)
        IN s.TotalBalance = Fx(SumSeq(AvailableOf(s.Accounts)))

(***************************************************************************)
(* Properties of the fetch functions and of the owner name                 *)
(***************************************************************************)
NotEmpty(name) == name # ""
FirstNonEmpty(names) ==
    LET given == SelectSeq(names, NotEmpty)
    IN IF given = <<>> THEN "" ELSE Head(given)

DisplayNamesOf(owners) == [k \in 1..Len(owners) |-> owners[k].DisplayName]
FullNamesOf(owners) == [k \in 1..Len(owners) |-> owners[k].FullName]

\* the first non-empty display name among the owners, else the first non-empty
\* full name among them, else the placeholder
FirstAvailableName(owners) ==
    IF FirstNonEmpty(DisplayNamesOf(owners)) # "" THEN FirstNonEmpty(DisplayNamesOf(owners))
    ELSE IF FirstNonEmpty(FullNamesOf(owners)) # "" THEN FirstNonEmpty(FullNamesOf(owners))
    ELSE UnknownCustomer

\* C22: the owner name surfaced is the first available non-empty display name
\* among the owners returned, else the first available non-empty full name,
\* else "Unknown Customer"; it is the placeholder when the owners fetch failed
\* or returned no owner.
C22_FirstAvailableOwnerName ==
    call.ownerName # Nil =>
        Deref(call.ownerName) = FirstAvailableName(Deref(call.ret).data)

\* what the code does: only the first owner returned is looked at
OwnerNameIsOfFirstOwner ==
    call.ownerName # Nil =>
        LET owners == Deref(call.ret).data
        IN Deref(call.ownerName) =
              IF owners = <<>> THEN UnknownCustomer
              ELSE FirstAvailableName(<<owners[1]>>)

\* C24: a fetch function returns a list with a nil error or nil with an error,
\* never elements together with an error; a list returned without error holds
\* elements of the body; and the owner name derived from a failed owners fetch,
\* whose error the handler does not look at, is the placeholder.
C24_ListOrError ==
    call.ret # Nil =>
        LET out == Deref(call.ret)
        IN /\ out.err # NoErr => out.data = <<>>
           /\ out.err = NoErr =>
                 /\ call.wire.sent
                 /\ call.wire.status \in {StatusOK, StatusCreated}
                 /\ out.data = ValuesOf(SelectSeq(call.wire.items, Decodable))
           /\ (call.r = "owners" /\ out.err # NoErr /\ call.ownerName # Nil) =>
                 Deref(call.ownerName) = UnknownCustomer

\* GetOwners failed on the second element of a body whose first element was an
\* owner with a display name, and the name derived is the placeholder
C24_Witness ==
    /\ call.r = "owners"
    /\ call.wire.sent /\ call.wire.readable /\ call.wire.wellFormed
    /\ call.wire.status = StatusOK
    /\ Len(call.wire.items) = 2
    /\ call.wire.items[1].decodes
    /\ call.wire.items[1].value.DisplayName # ""
    /\ ~call.wire.items[2].decodes
    /\ call.ret # Nil
    /\ Deref(call.ret).err # NoErr
    /\ call.ownerName = Some(UnknownCustomer)

(***************************************************************************)
(* Properties of the fan-out: order, single invocation, validation, fields *)
(***************************************************************************)
ErrOf(r) == IF fetched[r] = Nil THEN NoErr ELSE Deref(fetched[r]).err

\* the shared record as a function of the outcomes of the fetches made so far
ResultOfOutcomes ==
    [owners |-> IF fetched["owners"] = Nil THEN <<>> ELSE Deref(fetched["owners"]).data,
     accounts |-> IF fetched["accounts"] = Nil THEN <<>> ELSE Deref(fetched["accounts"]).data,
     transactions |-> IF fetched["transactions"] = Nil THEN <<>>
                      ELSE Deref(fetched["transactions"]).data,
     summary |-> IF FetchSucceeded("incomes")
                 THEN Some([IncomeStreams |-> Deref(fetched["incomes"]).data])
                 ELSE Nil,
     ownerErr |-> ErrOf("owners"),
     accountErr |-> ErrOf("accounts"),
     transErr |-> ErrOf("transactions"),
     summaryErr |-> ErrOf("incomes")]

\* what the handler derives, as a function of the four outcomes alone
LocalsOfOutcomes ==
    [ownerName |-> OwnerNameOf(Contribution("owners")),
     accounts |-> Contribution("accounts"),
     transactions |-> Contribution("transactions"),
     totalBalance |-> SumAvailable(Contribution("accounts")),
     hasData |-> HasDataOf(Contribution("accounts"), Contribution("transactions")),
     financialSummary |->
         Some(IF FetchFailed("incomes")
              THEN createBasicFinancialSummary(linkID, Contribution("accounts"),
                                               Contribution("transactions"), clock)
              ELSE createFinancialSummaryFromData(linkID, Contribution("accounts"),
                                                  Contribution("transactions"),
                                                  Contribution("incomes"), clock))]

\* C21: in every interleaving of the four tasks the shared record is a function
\* of the outcomes of the fetches that have completed, and the owner name,
\* accounts, transactions, has_data and summary derived after the join, and the
\* view returned, are a function of the four outcomes alone.
C21_OrderIndependent ==
    /\ result = ResultOfOutcomes
    /\ pc \in Derived => loc = LocalsOfOutcomes
    /\ pc = "returned" =>
          LET view == Deref(response)
          IN /\ view.owner_name = LocalsOfOutcomes.ownerName
             /\ view.accounts = LocalsOfOutcomes.accounts
             /\ view.recent_transactions = LocalsOfOutcomes.transactions
             /\ view.has_data = LocalsOfOutcomes.hasData
             /\ view.total_balance = LocalsOfOutcomes.totalBalance
             /\ view.financial_summary = LocalsOfOutcomes.financialSummary

\* a view returned from data of all four fetches
C21_Witness ==
    /\ pc = "returned"
    /\ \A r \in Resources : FetchSucceeded(r) /\ Contribution(r) # <<>>
    /\ Deref(response).owner_name # UnknownCustomer
    /\ Deref(Deref(response).financial_summary).MonthlyIncome > 0

\* the incomes task, started last, has completed with data while the owners
\* task, started first, is still running and the accounts task has completed
C21_WitnessOutOfOrder ==
    /\ task["incomes"] = "exited"
    /\ task["accounts"] = "exited"
    /\ task["owners"] = "running"
    /\ FetchSucceeded("incomes") /\ Contribution("incomes") # <<>>
    /\ FetchSucceeded("accounts") /\ Contribution("accounts") # <<>>
    /\ result.accounts = Contribution("accounts")
    /\ result.summary # Nil

Sent == Cardinality({r \in Resources : task[r] = "exited"})

C25_RejectedBeforeAnyFetch ==
    /\ [](/\ ~ValidRequest =>
               /\ pc \in {"start", "failed"}
               /\ \A r \in Resources : task[r] = "unspawned" /\ fetched[r] = Nil
               /\ result = EmptyResult /\ done = 0 /\ loc = NoLocals
          /\ pc = "failed" =>
               /\ ~ValidRequest
               /\ response # Nil /\ Deref(response).kind = "error"
          /\ ValidRequest => pc # "failed")
    /\ [][~ValidRequest => cache' = cache]_vars

\* a request with a link id and a secret_id but no secret_key has been rejected
\* while the cache holds an entry
C25_Witness ==
    /\ pc = "failed"
    /\ linkID # EmptyLink
    /\ req.bindOk /\ req.SecretID # "" /\ req.SecretKey = ""
    /\ Deref(response) = ErrorResponse("secret_id and secret_key are required")
    /\ \E k \in CacheKeys : cache[k] # Nil

\* the fields of the shared record each task assigns (lines 748-778)
FieldsOf(r) ==
    CASE r = "owners" -> {"owners", "ownerErr"}
      [] r = "accounts" -> {"accounts", "accountErr"}
      [] r = "transactions" -> {"transactions", "transErr"}
      [] r = "incomes" -> {"summary", "summaryErr"}

\* C26: the four tasks have pairwise disjoint fields of the shared record; a
\* step changes a field only if it is the step in which the task owning the
\* field runs; and the handler reads the record (to derive its locals) only in
\* a state where all four tasks have returned and all four completion signals
\* have been received, after which the record no longer changes.
C26_DisjointFieldsReadAfterJoin ==
    /\ [](/\ \A r, s \in Resources : r # s => FieldsOf(r) \cap FieldsOf(s) = {}
          /\ UNION {FieldsOf(r) : r \in Resources} = DOMAIN result)
    /\ [][/\ \A r \in Resources : \A f \in FieldsOf(r) :
                result'[f] # result[f] => task[r] = "running" /\ task'[r] = "exited"
          /\ loc' # loc =>
                /\ \A r \in Resources : task[r] = "exited"
                /\ i = NumFetches
                /\ result' = result
          /\ pc \in AfterJoin => result' = result]_vars

\* the locals were derived from a record in which every task had written data
C26_Witness ==
    /\ pc = "respond"
    /\ i = NumFetches
    /\ result.owners # <<>> /\ result.accounts # <<>> /\ result.transactions # <<>>
    /\ result.summary # Nil /\ Deref(result.summary).IncomeStreams # <<>>
    /\ loc.accounts = result.accounts

(***************************************************************************)
(* Frame of the cache operations                                           *)
(***************************************************************************)
Moves(c) == callers'[c] # callers[c]

\* C27: a step changes the entry of a key only if it is the assignment of a
\* StoreContext for that key, which leaves an entry for it, or the delete of a
\* GetCachedContext for that key, which removes an entry that has expired;
\* every other step of a caller (the lookup of an absent key, the check of a
\* fresh entry, the locks and unlocks) leaves the whole cache, expiry instants
\* included, unchanged.
C27_CacheFrame ==
    [][/\ \A k \in CacheKeys :
             cache'[k] # cache[k] =>
                \E c \in Callers :
                   /\ callers[c].key = k
                   /\ Moves(c)
                   /\ \/ /\ callers[c].op = "store" /\ callers[c].pc = "s_write"
                         /\ cache'[k] # Nil
                         /\ Deref(cache'[k]).LinkID = k
                      \/ /\ callers[c].op = "get" /\ callers[c].pc = "g_delete"
                         /\ cache[k] # Nil
                         /\ Expired(clock, Deref(cache[k]))
                         /\ cache'[k] = Nil
       /\ \A c \in Callers :
             (Moves(c) /\ callers[c].pc \notin {"s_write", "g_delete"}) => cache' = cache
       /\ \A c \in Callers :
             (Moves(c) /\ callers[c].pc \in {"s_write", "g_delete"}) =>
                \A j \in CacheKeys \ {callers[c].key} : cache'[j] = cache[j]
       /\ \A c \in Callers :
             (callers[c].pc = "g_check" /\ callers'[c].pc = "g_runlock") =>
                /\ ~Expired(clock, Deref(callers[c].cached))
                /\ cache' = cache]_vars

\* a GetCachedContext has removed the expired entry of its key while the
\* other key keeps its entry
C27_Witness ==
    \E c \in Callers :
       /\ Getting(c)
       /\ callers[c].cached # Nil
       /\ Expired(callers[c].now, Deref(callers[c].cached))
       /\ cache[callers[c].key] = Nil
       /\ \E j \in CacheKeys \ {callers[c].key} : cache[j] # Nil

\* a GetCachedContext has found a fresh entry, which is still in the cache
\* with the expiry instant the store gave it
C27_WitnessFresh ==
    \E c \in Callers :
       /\ Getting(c)
       /\ callers[c].ret.found
       /\ cache[callers[c].key] = callers[c].cached
       /\ clock > 0

(***************************************************************************)
(* GetFinancialSummary is fail-fast                                        *)
(***************************************************************************)
IsPrefix(p, q) == Len(p) <= Len(q) /\ \A n \in 1..Len(p) : p[n] = q[n]

\* the other request stored an entry for the link of the chat request
StoredByCacheRequest(k) ==
    cacheReq.status \in {"success", "panicked"} /\ cacheReq.LinkID = k

Figures(s) ==
    [TotalBalance |-> s.TotalBalance,
     MonthlyIncome |-> s.MonthlyIncome,
     MonthlyFixedExpenses |-> s.MonthlyFixedExpenses,
     MonthlyVariableExpenses |-> s.MonthlyVariableExpenses,
     MonthlySurplus |-> s.MonthlySurplus,
     Currency |-> s.Currency]

\* C29: when both builders have run on the same accounts, transactions and
\* income streams and the recurring expenses given to GetFinancialSummary are
\* empty, their TotalBalance, MonthlyIncome, MonthlyFixedExpenses,
\* MonthlyVariableExpenses, MonthlySurplus and Currency are equal, with or
\* without transactions.
C29_BuildersAgree ==
    (build.fromData # Nil /\ build.fromService # Nil /\ build.recurringExpenses = <<>>) =>
        Figures(Deref(build.fromService)) = Figures(Deref(build.fromData))

\* both builders have run on transactions, no income stream and no recurring
\* expense, and both took the income from the transactions
C29_Witness ==
    /\ build.fromData # Nil
    /\ build.fromService # Nil
    /\ build.recurringExpenses = <<>>
    /\ build.incomes = <<>>
    /\ build.accounts # <<>>
    /\ Deref(build.fromService).MonthlyIncome > 0
    /\ Deref(build.fromService).MonthlyVariableExpenses > 0

\* both builders have run on an empty transaction list with an income stream
C29_WitnessNoTransactions ==
    /\ build.fromData # Nil
    /\ build.fromService # Nil
    /\ build.recurringExpenses = <<>>
    /\ build.transactions = <<>>
    /\ build.incomes # <<>>
    /\ Deref(build.fromService).MonthlyIncome > 0

\* with a recurring expense the two builders differ in the fixed expenses
C29_WitnessRecurring ==
    /\ build.fromData # Nil
    /\ build.fromService # Nil
    /\ build.recurringExpenses # <<>>
    /\ Figures(Deref(build.fromService)) # Figures(Deref(build.fromData))

(***************************************************************************)
(* CacheContextFromSummary: the store and the response                     *)
(***************************************************************************)
\* C30: a CacheContextFromSummary request ends with an error or with the
\* success response; one that ends with an error leaves the cache unchanged,
\* and the cache changes only in a request that returns success, which holds
\* for every non-empty link_id with a summary, whatever its length.
C30_StoresOnlyOnSuccess ==
    [][cacheReq' # cacheReq =>
          /\ cacheReq'.status \in {"error", "success"}
          /\ cacheReq'.status = "error" => cache' = cache
          /\ cache' # cache => cacheReq'.status = "success"]_vars

\* what the handler does: an error leaves the cache unchanged, a request with
\* a link_id and a summary stores its entry, and the response is the success
\* response exactly when the link_id has at least eight bytes
CacheRequestStoresThenSlices ==
    [][cacheReq' # cacheReq =>
          /\ cacheReq'.status = "error" => cache' = cache
          /\ cacheReq'.status \in {"success", "panicked"} =>
                /\ cacheReq'.LinkID # EmptyLink
                /\ Entry(cache', cacheReq'.LinkID) # Nil
                /\ Deref(Entry(cache', cacheReq'.LinkID)).CachedAt = clock
                /\ (cacheReq'.status = "success") <=>
                      CanSlice(cacheReq'.LinkID, ShortIdLen)]_vars

\* a request with a short link_id has stored its entry and ended in the panic
CacheRequestPanicked ==
    /\ cacheReq.status = "panicked"
    /\ cacheReq.LinkID = ShortLink
    /\ Entry(cache, ShortLink) # Nil
====
